---- MODULE Spec2Model ----
(***************************************************************************)
(* WP-Pon: a single-pass scaffolding tool.  main() parses the command      *)
(* line, collects a configuration (flags, prompts, defaults), creates two  *)
(* directories, renders five files, writes them concurrently               *)
(* (Promise.all), marks init-plugins.sh executable with chmod and prints   *)
(* the next steps.                                                         *)
(*                                                                         *)
(* Representation                                                          *)
(*   - a JavaScript value that may be undefined/null is a sequence of      *)
(*     length 0 (absent) or 1 (present);                                   *)
(*   - a path is a record [abs, segs]; an absolute, resolved path is the   *)
(*     sequence of its segments (the root is << >>);                       *)
(*   - a file content is the sequence of its lines.                        *)
(***************************************************************************)
EXTENDS Integers, Sequences, FiniteSets, TLC

VARIABLES args, cwd, isTerminal, typed, pc, config, prompted, dirs, files,
          wstatus, disk, executable, chmod, console, exitCode

vars == <<args, cwd, isTerminal, typed, pc, config, prompted, dirs, files,
          wstatus, disk, executable, chmod, console, exitCode>>

----------------------------------------------------------------------------
(* Optional values: undefined/null and the ?? operator.                    *)

None == << >>

Some(v) == <<v>>

\* The || operator: an empty string falls through as well.
CoalesceOr(a, b) == IF a # None /\ a[1] # "" THEN a ELSE b

Coalesce(a, b) == IF a # None THEN a ELSE b

----------------------------------------------------------------------------
(* jsr:@std/path on POSIX, for paths without empty segments.               *)

RECURSIVE normalizeSegs(_, _)
normalizeSegs(segs, acc) ==
    IF segs = << >> THEN acc
    ELSE LET s == Head(segs) IN
         IF s = "." THEN normalizeSegs(Tail(segs), acc)
         ELSE IF s = ".." /\ acc # << >> /\ acc[Len(acc)] # ".."
              THEN normalizeSegs(Tail(segs), SubSeq(acc, 1, Len(acc) - 1))
         ELSE normalizeSegs(Tail(segs), Append(acc, s))

RECURSIVE dropLeadingDotDot(_)
dropLeadingDotDot(segs) ==
    IF segs # << >> /\ Head(segs) = ".." THEN dropLeadingDotDot(Tail(segs))
    ELSE segs

resolve(wd, p) ==
    dropLeadingDotDot(normalizeSegs(IF p.abs THEN p.segs ELSE wd \o p.segs, << >>))

basename(dir) == IF dir = << >> THEN "/" ELSE dir[Len(dir)]

join(dir, rest) == dir \o rest

\* The string of a resolved path.
RECURSIVE pathString(_)
pathString(dir) ==
    IF dir = << >> THEN "/"
    ELSE IF Len(dir) = 1 THEN "/" \o dir[1]
    ELSE pathString(SubSeq(dir, 1, Len(dir) - 1)) \o "/" \o dir[Len(dir)]

\* A flag value used as a path: the empty string, or one segment.
StrToPath(s) == [abs |-> FALSE, segs |-> IF s = "" THEN << >> ELSE <<s>>]

DotPath == [abs |-> FALSE, segs |-> <<".">>]

----------------------------------------------------------------------------
(* Deno's prompt(message, defaultValue): null when stdin is no terminal,   *)
(* otherwise the typed line, or the default when the line is empty.        *)

\* A prompt that returns the typed line even when it is empty.
promptNoDefault(term, line, defaultValue) ==
    IF ~term THEN None ELSE Some(line)

prompt(term, line, defaultValue) ==
    IF ~term THEN None
    ELSE IF line # "" THEN Some(line) ELSE Some(defaultValue)

----------------------------------------------------------------------------
(* collectUserConfig                                                       *)

dirArgOf(a) ==
    IF a.positional # None THEN a.positional[1]
    ELSE IF a.name # None THEN StrToPath(a.name[1])
    ELSE DotPath

collectUserConfig(a, wd, term, line) ==
    LET projectDir == resolve(wd, dirArgOf(a))
        defaultProjectName == basename(projectDir)
        projectName ==
            Coalesce(a.name,
                Coalesce(prompt(term, line.projectName, defaultProjectName),
                         Some(defaultProjectName)))
        wpVersion ==
            Coalesce(a.version,
                Coalesce(prompt(term, line.wpVersion, "latest"), Some("latest")))
        wpPort ==
            Coalesce(a.port,
                Coalesce(prompt(term, line.wpPort, "8080"), Some("8080")))
        wpPlugins == Coalesce(a.plugins, Some(""))
    IN  [projectDir  |-> projectDir,
         projectName |-> projectName[1],
         wpVersion   |-> wpVersion[1],
         wpPort      |-> wpPort[1],
         wpPlugins   |-> wpPlugins[1]]

\* The fields for which collectUserConfig puts a prompt on the terminal.
promptsShown(a, term) ==
    IF ~term THEN {}
    ELSE (IF a.name = None THEN {"projectName"} ELSE {})
         \cup (IF a.version = None THEN {"wpVersion"} ELSE {})
         \cup (IF a.port = None THEN {"wpPort"} ELSE {})

----------------------------------------------------------------------------
(* Templates                                                               *)

\* A template that leaves the quotes of WP_PLUGINS out.
createDotEnvTemplateUnquoted(c) ==
    << "# .env",
       "",
       "# Project Settings",
       "PROJECT_NAME=" \o c.projectName,
       "",
       "# WordPress Settings",
       "WP_VERSION=" \o c.wpVersion,
       "WP_PORT=" \o c.wpPort,
       "WP_PLUGINS=" \o c.wpPlugins,
       "",
       "# Database Settings",
       "MYSQL_DATABASE=wordpress",
       "MYSQL_USER=wordpress",
       "MYSQL_PASSWORD=your_strong_password",
       "MYSQL_ROOT_PASSWORD=your_strong_root_password" >>

createDotEnvTemplate(c) ==
    << "# .env",
       "",
       "# Project Settings",
       "PROJECT_NAME=" \o c.projectName,
       "",
       "# WordPress Settings",
       "WP_VERSION=" \o c.wpVersion,
       "WP_PORT=" \o c.wpPort,
       "WP_PLUGINS=\"" \o c.wpPlugins \o "\"",
       "",
       "# Database Settings",
       "MYSQL_DATABASE=wordpress",
       "MYSQL_USER=wordpress",
       "MYSQL_PASSWORD=your_strong_password",
       "MYSQL_ROOT_PASSWORD=your_strong_root_password" >>

\* The four static templates are fixed texts; each is one opaque line here.
dockerComposeTemplate == << "<docker-compose.yml template>" >>

initPluginsScriptTemplate == << "<init-plugins.sh template>" >>

uploadsIniTemplate == << "<uploads.ini template>" >>

timeoutsConfTemplate == << "<timeouts.conf template>" >>

scriptPath(projectDir) == join(projectDir, <<".pon", "init-plugins.sh">>)

filesToCreate(c) ==
    << [name |-> join(c.projectDir, <<".env">>),
        content |-> createDotEnvTemplate(c)],
       [name |-> join(c.projectDir, <<"docker-compose.yml">>),
        content |-> dockerComposeTemplate],
       [name |-> scriptPath(c.projectDir),
        content |-> initPluginsScriptTemplate],
       [name |-> join(c.projectDir, <<".pon", "uploads.ini">>),
        content |-> uploadsIniTemplate],
       [name |-> join(c.projectDir, <<".pon", "timeouts.conf">>),
        content |-> timeoutsConfTemplate] >>

----------------------------------------------------------------------------
(* Console output.  Only the messages the properties speak of are told     *)
(* apart; path is the file a message names, if any.                        *)

Line(stream, text, path) == [stream |-> stream, text |-> text, path |-> path]

UsageMsg == Line("log", "WP-Pon: A tool to quickly set up a WordPress development environment.", None)

StartMsg == Line("log", "Starting interactive setup for WordPress environment...", None)

CreatedMsg(name) == Line("log", "Successfully created", Some(name))

CreateFailedMsg(name) == Line("error", "Failed to create", Some(name))

SettingMsg(name) == Line("log", "Setting execute permission for", Some(name))

PermissionSetMsg == Line("log", "Execute permission set successfully.", None)

PermissionFailedMsg(why) == Line("error", "Failed to set execute permission: " \o why, None)

SummaryMsg == Line("log", "Environment setup is complete! Next steps: docker-compose up -d", None)

FatalMsg == Line("error", "An error occurred during setup. Please check the logs above.", None)

----------------------------------------------------------------------------
(* Inputs                                                                  *)

Cwds == { << >>, <<"home", "dev">> }

Positionals ==
    { None,
      Some([abs |-> FALSE, segs |-> <<"site">>]),
      Some([abs |-> TRUE, segs |-> <<"srv", "wp">>]),
      Some([abs |-> TRUE, segs |-> << >>]) }

NameFlags == { None, Some(""), Some("demo") }

VersionFlags == { None, Some(""), Some("6.4") }

PortFlags == { None, Some(""), Some("9090") }

PluginsFlags == { None, Some(""), Some("query-monitor acf") }

\* What the user types at each prompt ("" is a bare Enter).
TypedLines ==
    [projectName : {"", "blog"}, wpVersion : {"", "6.5"}, wpPort : {"", "8000"}]

AllArgs ==
    [help : BOOLEAN, positional : Positionals, name : NameFlags,
     version : VersionFlags, port : PortFlags, plugins : PluginsFlags]

\* The command lines of the full-pipeline specification: every one with
\* --help, and these without.
RunArgs ==
    [help : {FALSE},
     positional : { None, Some([abs |-> TRUE, segs |-> <<"srv", "wp">>]) },
     name : { None, Some("demo") },
     version : { None }, port : { None }, plugins : { None }]

RunTypedLines == { l \in TypedLines : l.wpVersion = "" /\ l.wpPort = "" }

OldContent == << "<previous content>" >>

NoFiles == [p \in {} |-> << >>]

\* The target files as they may exist before the run: none, or all of them.
OldDisks(a, wd) ==
    LET names == { join(resolve(wd, dirArgOf(a)), rel) :
                     rel \in { <<".env">>, <<"docker-compose.yml">>,
                               <<".pon", "init-plugins.sh">>,
                               <<".pon", "uploads.ini">>,
                               <<".pon", "timeouts.conf">> } }
    IN  { NoFiles, [p \in names |-> OldContent] }

InitWith(A, W, L) ==
    /\ args \in A
    /\ cwd \in W
    /\ isTerminal \in BOOLEAN
    /\ typed \in L
    /\ pc = "Idle"
    /\ config = None
    /\ prompted = {}
    /\ dirs = {}
    /\ files = << >>
    /\ wstatus = << >>
    /\ disk \in OldDisks(args, cwd)
    /\ executable = FALSE
    /\ chmod = "notrun"
    /\ console = {}
    /\ exitCode = None

Init == InitWith(RunArgs \cup {a \in AllArgs : a.help}, {<<"home", "dev">>}, RunTypedLines)

InitResolve == InitWith(AllArgs, Cwds, TypedLines)

----------------------------------------------------------------------------
(* main                                                                    *)

\* A --help that prints the usage and then falls through to the setup.
ParseArgsNoReturn ==
    /\ pc = "Idle"
    /\ console' = console \cup (IF args.help THEN {UsageMsg, StartMsg} ELSE {StartMsg})
    /\ pc' = "CollectingConfig"
    /\ UNCHANGED <<args, cwd, isTerminal, typed, config, prompted, dirs, files,
                   wstatus, disk, executable, chmod, exitCode>>

\* parseArgs, the --help branch (main returns and the process ends with
\* code 0), and the start banner.
ParseArgs ==
    /\ pc = "Idle"
    /\ IF args.help
       THEN /\ console' = console \cup {UsageMsg}
            /\ pc' = "HelpShown"
            /\ exitCode' = Some(0)
       ELSE /\ console' = console \cup {StartMsg}
            /\ pc' = "CollectingConfig"
            /\ exitCode' = exitCode
    /\ UNCHANGED <<args, cwd, isTerminal, typed, config, prompted, dirs, files,
                   wstatus, disk, executable, chmod>>

\* collectUserConfig(args), then Deno.mkdir(<projectDir>/.pon) is issued.
CollectUserConfig ==
    /\ pc = "CollectingConfig"
    /\ config' = Some(collectUserConfig(args, cwd, isTerminal, typed))
    /\ prompted' = promptsShown(args, isTerminal)
    /\ pc' = "MkdirPon"
    /\ UNCHANGED <<args, cwd, isTerminal, typed, dirs, files, wstatus, disk,
                   executable, chmod, console, exitCode>>

\* A catch block that reports the error and lets the process end normally.
FailNoExit ==
    /\ console' = console \cup {FatalMsg}
    /\ pc' = "Failed"
    /\ exitCode' = Some(0)

\* The catch block of main: the fatal message and Deno.exit(1).
Fail ==
    /\ console' = console \cup {FatalMsg}
    /\ pc' = "Failed"
    /\ exitCode' = Some(1)

FailWith(msg) ==
    /\ console' = console \cup {msg, FatalMsg}
    /\ pc' = "Failed"
    /\ exitCode' = Some(1)

\* Deno.mkdir(<projectDir>/.pon, {recursive: true}) settles.
MkdirPon ==
    /\ pc = "MkdirPon"
    /\ \/ /\ dirs' = dirs \cup {join(config[1].projectDir, <<".pon">>)}
          /\ pc' = "MkdirSrc"
          /\ UNCHANGED <<console, exitCode>>
       \/ /\ Fail
          /\ UNCHANGED dirs
    /\ UNCHANGED <<args, cwd, isTerminal, typed, config, prompted, files,
                   wstatus, disk, executable, chmod>>

\* Deno.mkdir(<projectDir>/src, {recursive: true}) settles.
MkdirSrc ==
    /\ pc = "MkdirSrc"
    /\ \/ /\ dirs' = dirs \cup {join(config[1].projectDir, <<"src">>)}
          /\ pc' = "Rendering"
          /\ UNCHANGED <<console, exitCode>>
       \/ /\ Fail
          /\ UNCHANGED dirs
    /\ UNCHANGED <<args, cwd, isTerminal, typed, config, prompted, files,
                   wstatus, disk, executable, chmod>>

\* filesToCreate.map(createFile): every createFile runs up to its await, so
\* all the writes are issued before main awaits Promise.all.
\* Writes issued one after the other: only the first is under way.
issueWritesInTurn(fs) == [i \in DOMAIN fs |-> IF i = 1 THEN "pending" ELSE "unissued"]

issueWrites(fs) == [i \in DOMAIN fs |-> "pending"]

RenderAndIssue ==
    /\ pc = "Rendering"
    /\ files' = filesToCreate(config[1])
    /\ wstatus' = issueWrites(files')
    /\ pc' = "WritingFiles"
    /\ UNCHANGED <<args, cwd, isTerminal, typed, config, prompted, dirs, disk,
                   executable, chmod, console, exitCode>>

----------------------------------------------------------------------------
(* The write stage                                                         *)

written(d, name, content) ==
    [p \in DOMAIN d \cup {name} |-> IF p = name THEN content ELSE d[p]]

\* createFile after its await: the write succeeded, or it threw and the
\* error is logged with the file's name and thrown again.  A failed write
\* leaves the file as it was or created and empty.
createFileLog(ok, name) == IF ok THEN CreatedMsg(name) ELSE CreateFailedMsg(name)

WriteSettles(i) ==
    /\ pc = "WritingFiles"
    /\ wstatus[i] = "pending"
    /\ \/ /\ disk' = written(disk, files[i].name, files[i].content)
          /\ wstatus' = [wstatus EXCEPT ![i] = "ok"]
          /\ console' = console \cup {createFileLog(TRUE, files[i].name)}
       \/ /\ disk' \in {disk, written(disk, files[i].name, << >>)}
          /\ wstatus' = [wstatus EXCEPT ![i] = "failed"]
          /\ console' = console \cup {createFileLog(FALSE, files[i].name)}
    /\ UNCHANGED <<args, cwd, isTerminal, typed, pc, config, prompted, dirs,
                   files, executable, chmod, exitCode>>

\* Promise.all over the createFile promises: rejected as soon as one of them
\* is rejected, fulfilled once all of them are fulfilled.
\* Promise.allSettled: fulfilled once nothing is pending, never rejected.
promiseAllSettled(ws) ==
    IF \A i \in DOMAIN ws : ws[i] # "pending" THEN "fulfilled" ELSE "pending"

\* Promise.any: fulfilled as soon as one write has succeeded.
promiseAny(ws) ==
    IF \E i \in DOMAIN ws : ws[i] = "ok" THEN "fulfilled"
    ELSE IF \A i \in DOMAIN ws : ws[i] = "failed" THEN "rejected"
    ELSE "pending"

promiseAll(ws) ==
    IF \E i \in DOMAIN ws : ws[i] = "failed" THEN "rejected"
    ELSE IF \A i \in DOMAIN ws : ws[i] = "ok" THEN "fulfilled"
    ELSE "pending"

\* What the files can be once the process has exited: a write that was still
\* pending may have happened, happened in part, or not at all.
RECURSIVE afterExitFrom(_, _, _, _)
afterExitFrom(d, fs, ws, i) ==
    IF i > Len(fs) THEN {d}
    ELSE LET rest == afterExitFrom(d, fs, ws, i + 1) IN
         IF ws[i] = "pending"
         THEN rest \cup { written(e, fs[i].name, fs[i].content) : e \in rest }
                   \cup { written(e, fs[i].name, << >>) : e \in rest }
         ELSE rest

afterExit(d, fs, ws) == afterExitFrom(d, fs, ws, 1)

\* main resumes from `await Promise.all(...)`: on fulfilment it calls
\* setExecutePermission, which logs and spawns chmod; on rejection it runs
\* the catch block.
AwaitWrites ==
    /\ pc = "WritingFiles"
    /\ \/ /\ promiseAll(wstatus) = "fulfilled"
          /\ console' = console \cup {SettingMsg(scriptPath(config[1].projectDir))}
          /\ chmod' = "running"
          /\ pc' = "SettingPermissions"
          /\ UNCHANGED <<disk, exitCode>>
       \/ /\ promiseAll(wstatus) = "rejected"
          /\ Fail
          /\ disk' \in afterExit(disk, files, wstatus)
          /\ UNCHANGED chmod
    /\ UNCHANGED <<args, cwd, isTerminal, typed, config, prompted, dirs, files,
                   wstatus, executable>>

----------------------------------------------------------------------------
(* setExecutePermission after `await command.output()`, and the rest of    *)
(* main.                                                                   *)

\* A setExecutePermission whose catch block logs and does not rethrow.
ChmodSettlesSwallow ==
    /\ pc = "SettingPermissions"
    /\ \/ /\ chmod' = "ok"
          /\ executable' = TRUE
          /\ console' = console \cup {PermissionSetMsg, SummaryMsg}
       \/ /\ chmod' = "nonzero"
          /\ console' = console \cup {PermissionFailedMsg("chmod command failed with code"), SummaryMsg}
          /\ UNCHANGED executable
       \/ /\ chmod' = "notfound"
          /\ console' = console \cup {PermissionFailedMsg("NotFound"), SummaryMsg}
          /\ UNCHANGED executable
    /\ pc' = "Done"
    /\ exitCode' = Some(0)
    /\ UNCHANGED <<args, cwd, isTerminal, typed, config, prompted, dirs, files,
                   wstatus, disk>>

\* chmod exits with code 0, exits with another code, or cannot be spawned.
ChmodSettles ==
    /\ pc = "SettingPermissions"
    /\ \/ /\ chmod' = "ok"
          /\ executable' = TRUE
          /\ console' = console \cup {PermissionSetMsg, SummaryMsg}
          /\ pc' = "Done"
          /\ exitCode' = Some(0)
       \/ /\ chmod' = "nonzero"
          /\ FailWith(PermissionFailedMsg("chmod command failed with code"))
          /\ UNCHANGED executable
       \/ /\ chmod' = "notfound"
          /\ FailWith(PermissionFailedMsg("NotFound"))
          /\ UNCHANGED executable
    /\ UNCHANGED <<args, cwd, isTerminal, typed, config, prompted, dirs, files,
                   wstatus, disk>>

----------------------------------------------------------------------------

NumFiles == 5

Next ==
    \/ ParseArgs
    \/ CollectUserConfig
    \/ MkdirPon
    \/ MkdirSrc
    \/ RenderAndIssue
    \/ \E i \in 1..NumFiles : WriteSettles(i)
    \/ AwaitWrites
    \/ ChmodSettles

Spec == Init /\ [][Next]_vars

\* The resolver and the renderer over every command line.
NextResolve ==
    \/ ParseArgs
    \/ CollectUserConfig
    \/ MkdirPon
    \/ MkdirSrc
    \/ RenderAndIssue

SpecResolve == InitResolve /\ [][NextResolve]_vars

----------------------------------------------------------------------------
(* Properties of the run (specification Spec)                              *)

chmodAttempted == chmod # "notrun"

WriteFailed == \E i \in DOMAIN wstatus : wstatus[i] = "failed"

WritePending == \E i \in DOMAIN wstatus : wstatus[i] = "pending"

AllWritten ==
    /\ DOMAIN wstatus = 1..NumFiles
    /\ \A i \in DOMAIN wstatus :
          /\ wstatus[i] = "ok"
          /\ files[i].name \in DOMAIN disk
          /\ disk[files[i].name] = files[i].content

\* C1: once the write of any file has failed, chmod is never attempted and
\* the process can only end with exit code 1; chmod is attempted only when
\* init-plugins.sh and every other file of the batch have been written.
C1_NoChmodAfterFailedWrite ==
    /\ WriteFailed =>
          /\ ~chmodAttempted
          /\ pc \in {"WritingFiles", "Failed"}
          /\ exitCode \in {None, Some(1)}
          /\ pc = "Failed" => exitCode = Some(1)
    /\ chmodAttempted => AllWritten

C1_Witness ==
    /\ pc = "Failed"
    /\ exitCode = Some(1)
    /\ DOMAIN wstatus = 1..NumFiles
    /\ wstatus[3] = "ok"
    /\ wstatus[5] = "failed"
    /\ ~chmodAttempted

Terminal == {"Done", "Failed"}

Forward ==
    { <<"Idle", "CollectingConfig">>, <<"Idle", "HelpShown">>,
      <<"CollectingConfig", "MkdirPon">>, <<"MkdirPon", "MkdirSrc">>,
      <<"MkdirSrc", "Rendering">>, <<"Rendering", "WritingFiles">>,
      <<"WritingFiles", "WritingFiles">>,
      <<"WritingFiles", "SettingPermissions">>,
      <<"SettingPermissions", "Done">>,
      <<"MkdirPon", "Failed">>, <<"MkdirSrc", "Failed">>,
      <<"WritingFiles", "Failed">>, <<"SettingPermissions", "Failed">> }

\* C2: the run of the setup (a run without --help) moves only forward
\* through Idle, CollectingConfig, (directory creation,) Rendering,
\* WritingFiles, SettingPermissions to Done or Failed; an error in directory
\* creation, writing or chmod goes to Failed; nothing happens after Done or
\* Failed; the exit code is 0 exactly in Done and 1 exactly in Failed; the
\* summary is on the console only in Done.
C2_ForwardOnly ==
    [][ /\ pc \notin Terminal
        /\ <<pc, pc'>> \in Forward
        /\ (pc' = "Done") <=> (exitCode' = Some(0) /\ ~args.help)
        /\ (pc' = "Failed") <=> (exitCode' = Some(1))
        /\ (pc' \notin Terminal /\ pc' # "HelpShown") => exitCode' = None
        /\ (SummaryMsg \in console') <=> (pc' = "Done")
        /\ (pc' = "Failed") => (FatalMsg \in console') ]_vars

C2_Witness ==
    /\ pc = "Done"
    /\ exitCode = Some(0)
    /\ SummaryMsg \in console
    /\ executable

\* C3: when all five files were written and chmod then fails (non-zero exit
\* or not spawned), the run is Failed with exit code 1, no summary is
\* printed, and the five files are on disk with the rendered contents.
C3_ChmodFailureKeepsFiles ==
    chmod \in {"nonzero", "notfound"} =>
        /\ pc = "Failed"
        /\ exitCode = Some(1)
        /\ SummaryMsg \notin console
        /\ ~executable
        /\ AllWritten

C3_Witness ==
    /\ pc = "Failed"
    /\ chmod = "notfound"
    /\ PermissionFailedMsg("NotFound") \in console
    /\ AllWritten

\* C7: from the moment the write stage is entered all five writes have been
\* issued, whatever happens to any of them, and every write that has failed
\* has been reported on the error stream with the path of its file.
C7_AllWritesIssued ==
    /\ pc \in {"WritingFiles", "SettingPermissions", "Done"} =>
          /\ Len(files) = NumFiles
          /\ DOMAIN wstatus = 1..NumFiles
    /\ \A i \in DOMAIN wstatus :
          /\ wstatus[i] \in {"pending", "ok", "failed"}
          /\ wstatus[i] = "failed" => CreateFailedMsg(files[i].name) \in console

C7_Witness ==
    /\ pc = "WritingFiles"
    /\ wstatus[1] = "failed"
    /\ CreateFailedMsg(files[1].name) \in console
    /\ wstatus[2] = "pending"
    /\ wstatus[4] = "ok"

\* C8: a run with --help prints the usage and ends with exit code 0; it
\* shows no prompt, creates no directory, issues no write, leaves the disk
\* as it was and does not invoke chmod, whatever the other arguments are.
C8_HelpHasNoSideEffect ==
    args.help =>
        /\ pc \in {"Idle", "HelpShown"}
        /\ pc = "HelpShown" => (exitCode = Some(0) /\ console = {UsageMsg})
        /\ pc = "Idle" => (exitCode = None /\ console = {})
        /\ config = None
        /\ prompted = {}
        /\ dirs = {}
        /\ files = << >>
        /\ wstatus = << >>
        /\ disk \in OldDisks(args, cwd)
        /\ ~executable
        /\ ~chmodAttempted

C8_Witness ==
    /\ pc = "HelpShown"
    /\ args.help
    /\ args.positional # None
    /\ args.name = Some("demo")
    /\ args.plugins # None
    /\ exitCode = Some(0)

\* C10 as stated: whenever the pipeline has left the write stage, to chmod
\* or to failure, no write is pending any more.
C10_JoinedBeforeLeaving ==
    (pc \in {"SettingPermissions", "Done", "Failed"} /\ wstatus # << >>) =>
        ~WritePending

\* C10 amended: the pipeline goes on to chmod only when all five writes have
\* succeeded; it leaves the write stage for failure only when some write has
\* failed, and then other writes may still be pending.
C10_JoinedOnSuccessOnly ==
    /\ (pc \in {"SettingPermissions", "Done"} \/ chmodAttempted) =>
          (\A i \in 1..NumFiles : wstatus[i] = "ok")
    /\ (pc = "Failed" /\ wstatus # << >> /\ ~chmodAttempted) => WriteFailed
    /\ (pc = "Failed" /\ WritePending) => (WriteFailed /\ ~chmodAttempted)

C10_Witness ==
    /\ pc = "Failed"
    /\ WriteFailed
    /\ WritePending

----------------------------------------------------------------------------
(* Properties of the resolver and the renderer (specification SpecResolve) *)

Resolved == config # None

\* C4: without a directory argument projectDir is the current working
\* directory, whatever flags are passed; with one, it is that argument
\* resolved against the current working directory.
C4_DefaultDirIsCwd ==
    Resolved =>
        /\ args.positional = None => config[1].projectDir = cwd
        /\ args.positional # None =>
              config[1].projectDir = resolve(cwd, args.positional[1])

\* The value the stated order gives a field: the flag, else the line typed
\* at the prompt, else the default.
ByOrder(flag, line, default) ==
    IF flag # None THEN flag[1]
    ELSE IF isTerminal /\ line # "" THEN line
    ELSE default

Flagged ==
    (IF args.name # None THEN {"projectName"} ELSE {})
    \cup (IF args.version # None THEN {"wpVersion"} ELSE {})
    \cup (IF args.port # None THEN {"wpPort"} ELSE {})
    \cup (IF args.plugins # None THEN {"wpPlugins"} ELSE {})

Fields == {"projectName", "wpVersion", "wpPort", "wpPlugins"}

ThreeFieldsByOrder ==
    /\ config[1].projectName =
          ByOrder(args.name, typed.projectName, basename(config[1].projectDir))
    /\ config[1].wpVersion = ByOrder(args.version, typed.wpVersion, "latest")
    /\ config[1].wpPort = ByOrder(args.port, typed.wpPort, "8080")

\* C5 as stated: each of the four fields is its flag, else the answer to a
\* prompt for that field (so on a terminal every field without a flag is
\* prompted for), else its default; no field with a flag is prompted for.
C5_FourFieldsByOrder ==
    Resolved =>
        /\ ThreeFieldsByOrder
        /\ args.plugins # None => config[1].wpPlugins = args.plugins[1]
        /\ (args.plugins = None /\ ~isTerminal) => config[1].wpPlugins = ""
        /\ isTerminal => prompted = Fields \ Flagged
        /\ prompted \cap Flagged = {}

\* C5 amended: projectName, wpVersion and wpPort are the flag, else the
\* answer to the prompt, else the default (basename of projectDir, "latest",
\* "8080"); wpPlugins is the flag, else "", and is never prompted for; no
\* field with a flag is prompted for, and nothing is prompted for without a
\* terminal.
C5_ThreeFieldsByOrder ==
    Resolved =>
        /\ ThreeFieldsByOrder
        /\ config[1].wpPlugins = (IF args.plugins # None THEN args.plugins[1] ELSE "")
        /\ prompted = (IF isTerminal THEN (Fields \ {"wpPlugins"}) \ Flagged ELSE {})
        /\ prompted \cap Flagged = {}

C5_Witness ==
    /\ Resolved
    /\ isTerminal
    /\ args.name = None /\ typed.projectName = "blog" /\ config[1].projectName = "blog"
    /\ args.version = Some("") /\ config[1].wpVersion = ""
    /\ args.port = None /\ typed.wpPort = "" /\ config[1].wpPort = "8080"
    /\ args.plugins = None /\ config[1].wpPlugins = ""
    /\ prompted = {"projectName", "wpPort"}

\* C6 as stated: every field of the returned configuration is a non-empty
\* string.
C6_AllFieldsNonEmpty ==
    Resolved =>
        /\ config[1].projectName # ""
        /\ config[1].wpVersion # ""
        /\ config[1].wpPort # ""
        /\ config[1].wpPlugins # ""
        /\ pathString(config[1].projectDir) # ""

\* C6 amended: projectDir is never empty; wpVersion and wpPort are empty
\* exactly when their flag is the empty string; projectName is empty when
\* its flag is the empty string and non-empty when the flag is non-empty or
\* is absent and the basename of projectDir is non-empty; wpPlugins is empty
\* exactly when its flag is absent or the empty string.
C6_EmptyOnlyFromFlags ==
    Resolved =>
        /\ pathString(config[1].projectDir) # ""
        /\ (config[1].wpVersion = "") <=> (args.version = Some(""))
        /\ (config[1].wpPort = "") <=> (args.port = Some(""))
        /\ args.name = Some("") => config[1].projectName = ""
        /\ (args.name # Some("") /\ basename(config[1].projectDir) # "") =>
              config[1].projectName # ""
        /\ (config[1].wpPlugins = "") <=> (args.plugins \in {None, Some("")})

C6_Witness ==
    /\ Resolved
    /\ isTerminal
    /\ args.name = Some("") /\ config[1].projectName = ""
    /\ args.version = None /\ typed.wpVersion = "" /\ config[1].wpVersion = "latest"
    /\ args.port = Some("9090")
    /\ args.plugins = None /\ config[1].wpPlugins = ""

DotEnvComments ==
    { "# .env", "", "# Project Settings", "# WordPress Settings",
      "# Database Settings" }

DatabaseLines ==
    { "MYSQL_DATABASE=wordpress", "MYSQL_USER=wordpress",
      "MYSQL_PASSWORD=your_strong_password",
      "MYSQL_ROOT_PASSWORD=your_strong_root_password" }

DemoFlags ==
    /\ args.name = Some("demo")
    /\ args.version = Some("6.4")
    /\ args.port = Some("9090")
    /\ args.plugins = Some("query-monitor acf")

\* C9: the content rendered for .env has, besides comment and blank lines,
\* exactly the four setting lines with the resolved values and the four
\* fixed database lines, each once; with the flags name=demo, version=6.4,
\* port=9090, plugins="query-monitor acf" the setting lines are the ones
\* the claim spells out.
C9_DotEnvLines ==
    files # << >> =>
        LET content == files[1].content
            lines == { content[k] : k \in DOMAIN content }
            settings == lines \ (DotEnvComments \cup DatabaseLines)
        IN  /\ files[1].name = join(config[1].projectDir, <<".env">>)
            /\ DatabaseLines \subseteq lines
            /\ settings = { "PROJECT_NAME=" \o config[1].projectName,
                            "WP_VERSION=" \o config[1].wpVersion,
                            "WP_PORT=" \o config[1].wpPort,
                            "WP_PLUGINS=\"" \o config[1].wpPlugins \o "\"" }
            /\ Cardinality({ k \in DOMAIN content : content[k] \notin DotEnvComments }) = 8
            /\ DemoFlags =>
                  settings = { "PROJECT_NAME=demo", "WP_VERSION=6.4",
                               "WP_PORT=9090",
                               "WP_PLUGINS=\"query-monitor acf\"" }

C9_Witness ==
    /\ files # << >>
    /\ DemoFlags
    /\ "WP_PLUGINS=\"query-monitor acf\"" \in { files[1].content[k] : k \in DOMAIN files[1].content }

====
